---------------------------- MODULE Spec2Model ----------------------------
(***************************************************************************)
(* Model of scanner_github.py: one run of run_scan() over one provider     *)
(* response.  Percentages are kept in tenths of a percent (2.0% is 20),    *)
(* VOLUME_MULTIPLIER in tenths (1.4 is 14); volumes are even integers so   *)
(* that the median of an even number of them is an integer.  Comparisons   *)
(* are exact (the rounding of IEEE doubles is not modelled).               *)
(***************************************************************************)
EXTENDS Integers, Sequences, FiniteSets, TLC

\* ------------------------------------------------------------------ bounds
MaxRecords == 3

\* --------------------------------------------------- configuration (env)
RANK_MIN == 40
RANK_MAX == 100
MIN_1H_PCT == 20
MIN_24H_PCT == 30
VOLUME_MULTIPLIER == 14

\* ------------------------------------------------------------ cell values
\* A cell of the provider's JSON or of the DataFrame.  v is meaningful only
\* for "num" (the number) and "str" (a code for the text).
Num(n) == [t |-> "num", v |-> n]
Str(n) == [t |-> "str", v |-> n]
NaN == [t |-> "nan", v |-> 0]
None == [t |-> "none", v |-> 0]
\* the key is not in the dict / the column is not in the frame
Missing == [t |-> "missing", v |-> 0]

\* pd.DataFrame(markets): a column exists when some dict has the key
HasColumn(rows, f) == \E k \in 1..Len(rows) : rows[k][f].t # "missing"

\* pd.DataFrame(markets): the cell of row k in column f.  A key missing from
\* a dict becomes NaN; a null becomes NaN in a column that holds numbers and
\* stays None in an object column.
FrameCell(rows, k, f) ==
    LET c == rows[k][f]
        numeric == \E j \in 1..Len(rows) : rows[j][f].t = "num"
    IN  IF c.t = "missing" THEN NaN
        ELSE IF c.t = "none" /\ numeric THEN NaN
        ELSE c

\* Series.between(left, right), inclusive on both sides; NaN is outside
Between_Exclusive(c, left, right) == c.t = "num" /\ left < c.v /\ c.v < right
Between(c, left, right) == c.t = "num" /\ left <= c.v /\ c.v <= right

\* python: float(x or 0).  None and 0 are falsy; NaN is truthy and stays NaN
FloatOrZero(c) == IF c.t = "none" \/ c = Num(0) THEN Num(0) ELSE c

\* python: a >= b on floats; a comparison with NaN is False
Ge(c, n) == c.t = "num" /\ c.v >= n

\* ------------------------------------------------------------------ median
RECURSIVE InsertSorted(_, _)
InsertSorted(s, x) ==
    IF s = <<>> THEN <<x>>
    ELSE IF x < Head(s) THEN <<x>> \o s
    ELSE <<Head(s)>> \o InsertSorted(Tail(s), x)

RECURSIVE SortInts(_)
SortInts(s) == IF s = <<>> THEN <<>> ELSE InsertSorted(SortInts(Tail(s)), Head(s))

RECURSIVE NumbersOf(_)
\* the non-NaN values of a column, as a sequence of integers
NumbersOf(col) ==
    IF col = <<>> THEN <<>>
    ELSE IF Head(col).t = "num" THEN <<Head(col).v>> \o NumbersOf(Tail(col))
    ELSE NumbersOf(Tail(col))

\* Series.median(): NaN skipped, the middle value, or the mean of the two
\* middle values of an even count
SeriesMedian(col) ==
    LET s == SortInts(NumbersOf(col))
        n == Len(s)
    IN  IF n % 2 = 1 THEN s[(n + 1) \div 2]
        ELSE (s[n \div 2] + s[n \div 2 + 1]) \div 2

\* line 166: median_vol = median() if not isna().all() else 0
MedianVol(col) == IF NumbersOf(col) = <<>> THEN 0 ELSE SeriesMedian(col)

\* ------------------------------------------------------------------- state
VARIABLES
    pc,              \* where run_scan is: start, fetched, rows, compose, crash, done
    provider,        \* what the market-data provider answers (the run's input)
    CCXT_AVAILABLE,  \* line 25-29: whether the optional ccxt import worked
    markets,         \* line 136: the value fetch_coingecko_markets returned
    sel,             \* line 150-165: the rank-filtered frame, one record per row
    median_vol,      \* line 166
    i,               \* the row the loop of line 170 is at
    candidates,      \* line 169
    evaluated,       \* ids of the rows the loop body was entered for
    skipped,         \* ids of the rows whose evaluation raised (line 215-217)
    first_rate,      \* per evaluated row: the first guess the exchange answered
                     \* with a rate (0: none did, or no call was made)
    outbox,          \* the calls of send_email, in order, with their outcome
    result           \* running, returned, raised: how run_scan ended

vars == <<pc, provider, CCXT_AVAILABLE, markets, sel, median_vol, i, candidates,
          evaluated, skipped, first_rate, outbox, result>>

\* ---------------------------------------------------------- lines 148-165
RECURSIVE MaskIndices(_, _)
\* line 149-150: the positions of the rows the rank mask keeps, in frame order
MaskIndices(rows, k) ==
    IF k > Len(rows) THEN <<>>
    ELSE (IF Between(FrameCell(rows, k, "market_cap_rank"), RANK_MIN, RANK_MAX)
          THEN <<k>> ELSE <<>>) \o MaskIndices(rows, k + 1)

\* line 157-160: the 1h column, else the plain 24h column, else NaN; NaN again
\* when the 24h-in-currency column exists and the 1h column does not
PriceChange1h(rows, k) ==
    IF HasColumn(rows, "pc_1h_in_currency") THEN FrameCell(rows, k, "pc_1h_in_currency")
    ELSE IF HasColumn(rows, "pc_24h_in_currency") THEN NaN
    ELSE IF HasColumn(rows, "pc_24h") THEN FrameCell(rows, k, "pc_24h")
    ELSE NaN

\* line 162 (the modelled inputs never carry the key price_change_24h)
PriceChange24h(rows, k) ==
    IF HasColumn(rows, "pc_24h_in_currency") THEN FrameCell(rows, k, "pc_24h_in_currency")
    ELSE NaN

\* line 165: sel.get("total_volume", 0)
TotalVolume(rows, k) ==
    IF HasColumn(rows, "total_volume") THEN FrameCell(rows, k, "total_volume")
    ELSE Num(0)

\* what row.get("symbol", "") gives at line 173: Missing stands for the default
SymbolCell(rows, k) ==
    IF HasColumn(rows, "symbol") THEN FrameCell(rows, k, "symbol") ELSE Missing

SelRow(rows, k) ==
    [id |-> k,
     rank |-> FrameCell(rows, k, "market_cap_rank").v,
     symbol |-> SymbolCell(rows, k),
     total_volume |-> TotalVolume(rows, k),
     price_change_1h |-> PriceChange1h(rows, k),
     price_change_24h |-> PriceChange24h(rows, k)]

Select(rows) ==
    LET idx == MaskIndices(rows, 1)
    IN  [j \in 1..Len(idx) |-> SelRow(rows, idx[j])]

\* line 165-166: the volume column of sel, the frame the median is taken of
MedianInput_Unfiltered(rows) == [k \in 1..Len(rows) |-> TotalVolume(rows, k)]
MedianInput(rows) == [j \in 1..Len(Select(rows)) |-> Select(rows)[j].total_volume]

\* ----------------------------------------------------------- lines 77-99
\* What one call of the exchange's funding method does: it returns a rate, it
\* returns nothing usable (no such method, None, an empty answer), or it raises.
FundingOutcomes == {"rate", "none", "exc"}

\* try_fetch_funding_rate: "rate" or "none"; the except of line 97 turns an
\* exception into None.  ("raise" is what a caller would see without it.)
TryFetchFundingRate_NoExcept(ccxt, out) ==
    IF ~ccxt THEN "none" ELSE IF out = "exc" THEN "raise" ELSE out
TryFetchFundingRate(ccxt, out) ==
    IF ~ccxt THEN "none" ELSE IF out = "exc" THEN "none" ELSE out

\* line 200: the number of symbol guesses
NumGuesses == 3

RECURSIVE TryGuesses(_, _, _)
\* line 202-206: the guesses in order, stopping at the first truthy answer.
\* info is the number of the guess that answered, 0 for None.
TryGuesses(ccxt, outs, g) ==
    IF g > NumGuesses THEN [raised |-> FALSE, info |-> 0]
    ELSE LET fr == TryFetchFundingRate(ccxt, outs[g])
         IN  IF fr = "raise" THEN [raised |-> TRUE, info |-> 0]
             ELSE IF fr = "rate" THEN [raised |-> FALSE, info |-> g]
             ELSE TryGuesses(ccxt, outs, g + 1)

\* line 194-206: no lookup without ccxt, no guesses for an empty symbol
FundingInfo(ccxt, symbol, outs) ==
    IF ccxt /\ symbol.t = "str" THEN TryGuesses(ccxt, outs, 1)
    ELSE [raised |-> FALSE, info |-> 0]

\* ---------------------------------------------------------- lines 172-214
\* line 184-189: the reasons, in the order the code appends them
VolumeReason(vol, median) ==
    IF median > 0 /\ vol.t = "num" /\ 10 * vol.v >= median * VOLUME_MULTIPLIER
    THEN <<"vol">> ELSE <<>>

Reasons(change_1h, change_24h, vol, median) ==
    (IF Ge(change_1h, MIN_1H_PCT) THEN <<"1h">> ELSE <<>>)
    \o (IF Ge(change_24h, MIN_24H_PCT) THEN <<"24h">> ELSE <<>>)
    \o VolumeReason(vol, median)

\* line 191: at least two of the three
Signal_AnyOne(reasons) == Len(reasons) >= 1
Signal(reasons) == Len(reasons) >= 2

\* line 173: "".upper() for the default, AttributeError for NaN and None
SymbolRaises(symbol) == symbol.t \in {"nan", "none"}

\* The body of the try of line 171 for one row.  raised: the body raised and
\* the except of line 215 took over; otherwise signal and the record of 209.
ProcessRow(row, median, ccxt, outs) ==
    LET vol        == FloatOrZero(row.total_volume)
        change_1h  == FloatOrZero(row.price_change_1h)
        change_24h == FloatOrZero(row.price_change_24h)
        reasons    == Reasons(change_1h, change_24h, vol, median)
        funding    == FundingInfo(ccxt, row.symbol, outs)
    IN  [raised |-> SymbolRaises(row.symbol) \/ funding.raised,
         signal |-> Signal(reasons),
         cand   |-> [id |-> row.id, rank |-> row.rank, vol |-> vol,
                     h1 |-> change_1h, h24 |-> change_24h,
                     reasons |-> reasons, funding |-> funding.info]]

\* ---------------------------------------------------------- lines 229-251
RECURSIVE InsertByRank(_, _)
\* sorted() is stable: a candidate goes after those of the same rank
InsertByRank(s, c) ==
    IF s = <<>> THEN <<c>>
    ELSE IF c.rank < Head(s).rank THEN <<c>> \o s
    ELSE <<Head(s)>> \o InsertByRank(Tail(s), c)

RECURSIVE SortByRank(_)
SortByRank_Unsorted(cs) == cs
SortByRank(cs) ==
    IF cs = <<>> THEN <<>>
    ELSE InsertByRank(SortByRank(SubSeq(cs, 1, Len(cs) - 1)), cs[Len(cs)])

\* line 248: int(c['vol']) raises ValueError for NaN
RenderRaises(cs) == \E k \in 1..Len(cs) : cs[k].vol.t # "num"

\* line 242-251: one table row
RenderRow(c) ==
    [id |-> c.id, rank |-> c.rank, h1 |-> c.h1, h24 |-> c.h24,
     vol |-> c.vol.v, reasons |-> c.reasons, funding |-> c.funding]

\* ---------------------------------------------------------- lines 101-128
\* The notifier's situation when send_email is called.
SmtpStates == {"unconfigured", "smtp_error", "ok"}

\* send_email returns (False, ..) when unconfigured or when SMTP raises
SendEmail(smtp) ==
    IF smtp = "unconfigured" THEN "skipped"
    ELSE IF smtp = "smtp_error" THEN "failed"
    ELSE "sent"

\* ------------------------------------------------------------------ inputs
\* A dict of the provider's list.  pc_24h is the key price_change_percentage_24h,
\* pc_*_in_currency the keys price_change_percentage_*_in_currency.
Record(rank, vol, h1, h24, p24, sym) ==
    [market_cap_rank |-> rank, total_volume |-> vol, pc_1h_in_currency |-> h1,
     pc_24h_in_currency |-> h24, pc_24h |-> p24, symbol |-> sym]

RecordsOf(ranks, vols, h1s, h24s, p24s, syms) ==
    {Record(r, v, a, b, c, y) :
        r \in ranks, v \in vols, a \in h1s, b \in h24s, c \in p24s, y \in syms}

\* the lists of at most MaxRecords dicts (the empty list too)
ListsOf(records) == UNION {[1..n -> records] : n \in 0..MaxRecords}

\* resp.json(): a list of dicts, or something that is not a list
NotAList == [list |-> FALSE, rows |-> <<>>]
Responses(records) == {NotAList} \cup {[list |-> TRUE, rows |-> l] : l \in ListsOf(records)}

\* every signal combination, the median-0 boundary, and rows that raise
QuorumRecords ==
    RecordsOf({Num(40)}, {Num(0), Num(10)}, {Num(19), Num(20)},
              {Num(29), Num(30)}, {Missing}, {Str(1), Missing})

\* ranks around both ends of the window, volumes present and absent
RankRecords ==
    RecordsOf({Num(39), Num(40), Num(100), Num(101), Missing},
              {Num(10), Num(30), Missing}, {Num(20)}, {Num(30)}, {Missing}, {Str(1)})

\* absent and null values of the three numeric fields and of the plain 24h key
NormalizeRecords ==
    RecordsOf({Num(40)}, {Num(10), Num(30), Missing}, {Num(20), None, Missing},
              {Num(30), Missing}, {Num(30), Missing}, {Str(1)})

\* funding lookups: rows with and without a symbol, inside and outside the window
FundingRecords ==
    RecordsOf({Num(40), Num(101)}, {Num(10)}, {Num(19), Num(20)},
              {Num(30)}, {Missing}, {Str(1), Missing})

InitWith(records, ccxt) ==
    /\ pc = "start"
    /\ provider \in Responses(records)
    /\ CCXT_AVAILABLE \in ccxt
    /\ markets = [kind |-> "unset", rows |-> <<>>]
    /\ sel = <<>>
    /\ median_vol = 0
    /\ i = 1
    /\ candidates = <<>>
    /\ evaluated = {}
    /\ skipped = {}
    /\ first_rate = <<>>
    /\ outbox = <<>>
    /\ result = "running"

Init == InitWith(QuorumRecords, {FALSE})

\* ----------------------------------------------------------------- actions
\* line 136 and fetch_coingecko_markets: requests.get or raise_for_status
\* raises (network error, timeout, error status), or the JSON is returned
Fetch ==
    /\ pc = "start"
    /\ \E http \in {"ok", "error"} :
        IF http = "error"
        THEN /\ pc' = "crash"
             /\ markets' = [kind |-> "raised", rows |-> <<>>]
        ELSE /\ pc' = "fetched"
             /\ markets' = [kind |-> IF provider.list THEN "list" ELSE "nonlist",
                            rows |-> provider.rows]
    /\ UNCHANGED <<provider, CCXT_AVAILABLE, sel, median_vol, i, candidates,
                   evaluated, skipped, first_rate, outbox, result>>

\* line 137-139 and 144-146: where run_scan goes when the answer is no
\* non-empty list, or no dict of it has the rank key
BadResponsePc_Crash == "crash"
BadResponsePc == "done"

\* line 137-166: the checks of the answer, the rank filter, the columns, the
\* median
Prepare ==
    /\ pc = "fetched"
    /\ IF markets.kind # "list" \/ Len(markets.rows) = 0
          \/ ~HasColumn(markets.rows, "market_cap_rank")
       THEN /\ pc' = BadResponsePc
            /\ result' = IF BadResponsePc = "done" THEN "returned" ELSE result
            /\ UNCHANGED <<sel, median_vol>>
       ELSE LET frame == Select(markets.rows)
            IN  IF frame = <<>>
                THEN /\ pc' = "done"
                     /\ result' = "returned"
                     /\ UNCHANGED <<sel, median_vol>>
                ELSE /\ sel' = frame
                     /\ median_vol' = MedianVol(MedianInput(markets.rows))
                     /\ pc' = "rows"
                     /\ UNCHANGED result
    /\ UNCHANGED <<provider, CCXT_AVAILABLE, markets, i, candidates, evaluated,
                   skipped, first_rate, outbox>>

\* What the exchange would answer to each guess for a row.  Without ccxt, or
\* with an empty symbol, no call is made (written as "none" answers); a row
\* whose symbol raises never gets to the lookup.
ExchangeAnswers(ccxt, symbol) ==
    IF ccxt /\ symbol.t = "str" THEN [1..NumGuesses -> FundingOutcomes]
    ELSE {[g \in 1..NumGuesses |-> "none"]}

\* line 215-217: where the loop goes after a row raised
RowExceptPc_Propagate(next) == "crash"
RowExceptPc(next) == next

\* line 170-217: one iteration of the loop
EvalRow ==
    /\ pc = "rows"
    /\ i <= Len(sel)
    /\ \E outs \in ExchangeAnswers(CCXT_AVAILABLE, sel[i].symbol) :
        LET r    == ProcessRow(sel[i], median_vol, CCXT_AVAILABLE, outs)
            next == IF i = Len(sel) THEN "compose" ELSE "rows"
            rate == {g \in 1..NumGuesses : outs[g] = "rate"}
        IN  /\ evaluated' = evaluated \cup {sel[i].id}
            /\ first_rate' = Append(first_rate,
                    IF rate = {} THEN 0
                    ELSE CHOOSE g \in rate : \A h \in rate : g <= h)
            /\ IF r.raised
               THEN /\ skipped' = skipped \cup {sel[i].id}
                    /\ pc' = RowExceptPc(next)
                    /\ UNCHANGED candidates
               ELSE /\ candidates' = IF r.signal THEN Append(candidates, r.cand)
                                     ELSE candidates
                    /\ pc' = next
                    /\ UNCHANGED skipped
    /\ i' = i + 1
    /\ UNCHANGED <<provider, CCXT_AVAILABLE, markets, sel, median_vol, outbox, result>>

\* line 220: if not candidates
NothingToReport_Never(cs) == FALSE
NothingToReport(cs) == cs = <<>>

\* line 219-259: nothing to report, or the table and the send; a ValueError
\* of the rendering goes to the except of line 260
Compose ==
    /\ pc = "compose"
    /\ \E smtp \in SmtpStates :
        IF NothingToReport(candidates)
        THEN /\ pc' = "done"
             /\ result' = "returned"
             /\ UNCHANGED outbox
        ELSE IF RenderRaises(SortByRank(candidates))
        THEN /\ pc' = "crash"
             /\ UNCHANGED <<outbox, result>>
        ELSE /\ outbox' = Append(outbox,
                    [subject |-> "candidates", count |-> Len(candidates),
                     rows |-> [k \in 1..Len(candidates) |->
                                  RenderRow(SortByRank(candidates)[k])],
                     outcome |-> SendEmail(smtp)])
             /\ pc' = "done"
             /\ result' = "returned"
    /\ UNCHANGED <<provider, CCXT_AVAILABLE, markets, sel, median_vol, i,
                   candidates, evaluated, skipped, first_rate>>

\* line 260-267: the crash mail, best effort; send_email returns its failure
\* and the except of line 266 would take anything it raised
CrashHandler_LogOnly ==
    /\ pc = "crash"
    /\ pc' = "done"
    /\ result' = "returned"
    /\ UNCHANGED <<provider, CCXT_AVAILABLE, markets, sel, median_vol, i,
                   candidates, evaluated, skipped, first_rate, outbox>>
CrashHandler ==
    /\ pc = "crash"
    /\ \E smtp \in SmtpStates :
        outbox' = Append(outbox, [subject |-> "error", count |-> 0, rows |-> <<>>,
                                  outcome |-> SendEmail(smtp)])
    /\ pc' = "done"
    /\ result' = "returned"
    /\ UNCHANGED <<provider, CCXT_AVAILABLE, markets, sel, median_vol, i,
                   candidates, evaluated, skipped, first_rate>>

Next == Fetch \/ Prepare \/ EvalRow \/ Compose \/ CrashHandler

Spec == Init /\ [][Next]_vars

SpecRank == InitWith(RankRecords, {FALSE}) /\ [][Next]_vars

SpecNormalize == InitWith(NormalizeRecords, {FALSE}) /\ [][Next]_vars

SpecFunding == InitWith(FundingRecords, BOOLEAN) /\ [][Next]_vars

\* ================================================================= claims
\* What the claims speak of, stated on the provider's data and on the state,
\* not through the operators of the evaluation.

\* a numeric cell read with an absent value as 0
ValueOrZero(c) == IF c.t = "num" THEN c.v ELSE 0

\* the provider's value is absent: no key, or a null
Absent(c) == c.t \in {"missing", "none"}

\* the three conditions of the signal rule for a row of the filtered set
Cond1h(row) == ValueOrZero(row.price_change_1h) >= MIN_1H_PCT
Cond24h(row) == ValueOrZero(row.price_change_24h) >= MIN_24H_PCT
CondVol(row) ==
    /\ median_vol # 0
    /\ 10 * ValueOrZero(row.total_volume) >= VOLUME_MULTIPLIER * median_vol
TrueConditions(row) ==
    {c \in {"1h", "24h", "vol"} :
        \/ c = "1h" /\ Cond1h(row)
        \/ c = "24h" /\ Cond24h(row)
        \/ c = "vol" /\ CondVol(row)}

CandidateIds == {candidates[k].id : k \in 1..Len(candidates)}
CandidateOf(id) == CHOOSE c \in {candidates[k] : k \in 1..Len(candidates)} : c.id = id
SelIds == {sel[k].id : k \in 1..Len(sel)}
\* the rows the loop is through with
Done == 1..(i - 1)
Mails(subject) == {k \in 1..Len(outbox) : outbox[k].subject = subject}
FetchSucceeded == markets.kind \in {"list", "nonlist"}
BadResponse ==
    /\ FetchSucceeded
    /\ \/ markets.kind = "nonlist"
       \/ markets.rows = <<>>
       \/ \A k \in 1..Len(markets.rows) : markets.rows[k].market_cap_rank.t = "missing"

C2_FetchFaultCrashMail ==
    markets.kind = "raised" =>
        /\ evaluated = {} /\ sel = <<>> /\ candidates = <<>>
        /\ Mails("candidates") = {}
        /\ result # "raised"
        /\ pc \in {"crash", "done"}
        /\ pc = "done" => /\ result = "returned"
                          /\ Len(outbox) = 1
                          /\ outbox[1].subject = "error"

\* the fetch raised, the notifier is unconfigured, run_scan returned
C2_Witness ==
    /\ pc = "done"
    /\ markets.kind = "raised"
    /\ result = "returned"
    /\ Len(outbox) = 1 /\ outbox[1].outcome = "skipped"

C4_NoCandidatesNoMail ==
    (pc = "done" /\ FetchSucceeded /\ candidates = <<>>) =>
        (outbox = <<>> /\ result = "returned")

\* rows were evaluated, none reached the quorum, the run is over
C4_Witness ==
    /\ pc = "done"
    /\ FetchSucceeded
    /\ Len(sel) >= 2 /\ evaluated = SelIds
    /\ skipped = {}
    /\ candidates = <<>>

\* ---------------------------------------------------------------------- C5
\* C5: a row whose evaluation raised is skipped and nothing else changes: the
\* loop goes through every filtered row, the candidates are exactly the rows
\* that did not raise and meet the quorum, in frame order, and the crash path
\* is entered only after a raising fetch or a raising rendering, never for a
\* row.
C5_RowFaultIsolated ==
    /\ evaluated = {sel[k].id : k \in Done}
    /\ pc \in {"compose", "crash", "done"} /\ sel # <<>> => evaluated = SelIds
    /\ CandidateIds =
          {sel[k].id : k \in {j \in Done : /\ sel[j].id \notin skipped
                                           /\ Cardinality(TrueConditions(sel[j])) >= 2}}
    /\ \A a, b \in 1..Len(candidates) : a < b => candidates[a].id < candidates[b].id
    /\ (pc = "crash" \/ Mails("error") # {}) =>
          \/ markets.kind = "raised"
          \/ \E k \in 1..Len(candidates) : candidates[k].vol.t # "num"
    /\ pc = "done" => result = "returned"

\* a row raised, a later row became a candidate, and the report went out
C5_Witness ==
    /\ pc = "done"
    /\ \E j, k \in 1..Len(sel) : /\ j < k
                                 /\ sel[j].id \in skipped
                                 /\ Cardinality(TrueConditions(sel[j])) >= 2
                                 /\ sel[k].id \in CandidateIds
    /\ Mails("candidates") # {}
    /\ Mails("error") = {}

\* ---------------------------------------------------------------------- C6
\* the positions of the provider's records inside the rank window that carry
\* a volume
WindowVolumeIdx ==
    {k \in 1..Len(markets.rows) :
        /\ markets.rows[k].market_cap_rank.t = "num"
        /\ markets.rows[k].market_cap_rank.v >= RANK_MIN
        /\ markets.rows[k].market_cap_rank.v <= RANK_MAX
        /\ markets.rows[k].total_volume.t = "num"}
VolumeAt(k) == markets.rows[k].total_volume.v
\* x is the p-th smallest of the volumes of the positions K
IsNthSmallest(K, x, p) ==
    /\ Cardinality({k \in K : VolumeAt(k) < x}) < p
    /\ p <= Cardinality({k \in K : VolumeAt(k) <= x})
\* m is the statistical median of the volumes of K: the middle value, or the
\* mean of the two middle values
IsMedian(K, m) ==
    LET n == Cardinality(K)
    IN  \E a, b \in K :
            /\ IsNthSmallest(K, VolumeAt(a), (n + 1) \div 2)
            /\ IsNthSmallest(K, VolumeAt(b), n \div 2 + 1)
            /\ 2 * m = VolumeAt(a) + VolumeAt(b)

\* C6: once the filtered set is there, median_vol is the statistical median of
\* the volumes of the records inside the rank window, 0 when none of them has
\* a volume, and it stays so to the end of the run.
C6_MedianOfWindow ==
    sel # <<>> =>
        IF WindowVolumeIdx = {} THEN median_vol = 0
        ELSE IsMedian(WindowVolumeIdx, median_vol)

\* records outside the window carry volumes that would move the median, and a
\* record of the window has no volume
C6_Witness ==
    /\ pc = "compose"
    /\ Len(sel) = 2
    /\ Cardinality(WindowVolumeIdx) = 1
    /\ \E k \in 1..Len(markets.rows) :
          /\ markets.rows[k].market_cap_rank = Num(101)
          /\ markets.rows[k].total_volume.t = "num"
          /\ markets.rows[k].total_volume.v # median_vol

\* ---------------------------------------------------------------------- C7
\* the positions of the provider's records whose rank is in the closed window
WindowIdx ==
    {k \in 1..Len(markets.rows) :
        /\ markets.rows[k].market_cap_rank.t = "num"
        /\ markets.rows[k].market_cap_rank.v >= RANK_MIN
        /\ markets.rows[k].market_cap_rank.v <= RANK_MAX}

\* C7: after the filter of a list, the filtered set holds exactly the records
\* with RANK_MIN <= rank <= RANK_MAX, each once and with its own rank; no
\* other record is evaluated or becomes a candidate.
C7_RankWindow ==
    (markets.kind = "list" /\ pc \notin {"start", "fetched"}) =>
        /\ SelIds = WindowIdx
        /\ \A a, b \in 1..Len(sel) : a # b => sel[a].id # sel[b].id
        /\ \A a \in 1..Len(sel) :
              /\ sel[a].rank = markets.rows[sel[a].id].market_cap_rank.v
              /\ RANK_MIN <= sel[a].rank /\ sel[a].rank <= RANK_MAX
        /\ evaluated \subseteq WindowIdx
        /\ \A c \in 1..Len(candidates) :
              /\ candidates[c].id \in WindowIdx
              /\ candidates[c].rank = markets.rows[candidates[c].id].market_cap_rank.v
              /\ RANK_MIN <= candidates[c].rank /\ candidates[c].rank <= RANK_MAX
              /\ \A d \in 1..Len(candidates) : c # d => candidates[c].id # candidates[d].id

\* both ends of the window kept, a record without rank dropped
C7_Witness ==
    /\ pc = "compose"
    /\ Len(markets.rows) = 3
    /\ {sel[k].rank : k \in 1..Len(sel)} = {RANK_MIN, RANK_MAX}
    /\ \E k \in 1..3 : markets.rows[k].market_cap_rank.t = "missing"
    /\ Len(candidates) = 2

\* ---------------------------------------------------------------------- C8
\* C8: every candidate report handed to send_email lists the candidates, each
\* once, in non-decreasing order of rank, and as many rows as the count in its
\* subject.
C8_ReportSortedByRank ==
    \A m \in Mails("candidates") :
        LET rows == outbox[m].rows
        IN  /\ \A a, b \in 1..Len(rows) : a < b => rows[a].rank <= rows[b].rank
            /\ Len(rows) = outbox[m].count
            /\ outbox[m].count = Len(candidates)
            /\ {rows[a].id : a \in 1..Len(rows)} = CandidateIds
            /\ \A a \in 1..Len(rows) : rows[a].rank = CandidateOf(rows[a].id).rank

\* the provider listed rank 100 before rank 40, both are in the report
C8_Witness ==
    /\ pc = "done"
    /\ Len(candidates) >= 2
    /\ candidates[1].rank > candidates[2].rank
    /\ Mails("candidates") # {}

\* ---------------------------------------------------------------------- C9
\* the provider's record a candidate was made from
RawOf(c) == markets.rows[c.id]

\* an absent volume, 1h change or 24h change is 0 in the candidate record
C9_AbsentIsZero ==
    \A k \in 1..Len(candidates) :
        LET c == candidates[k]
        IN  /\ Absent(RawOf(c).total_volume) => c.vol = Num(0)
            /\ Absent(RawOf(c).pc_1h_in_currency) => c.h1 = Num(0)
            /\ Absent(RawOf(c).pc_24h_in_currency) => c.h24 = Num(0)

\* an absent value never makes its condition (of positive threshold) true
C9_AbsentNeverTrue ==
    \A k \in 1..Len(candidates) :
        LET c  == candidates[k]
            rs == {c.reasons[j] : j \in 1..Len(c.reasons)}
        IN  /\ Absent(RawOf(c).total_volume) => "vol" \notin rs
            /\ Absent(RawOf(c).pc_1h_in_currency) => "1h" \notin rs
            /\ Absent(RawOf(c).pc_24h_in_currency) => "24h" \notin rs

\* a candidate with an absent volume is rendered, with volume 0: the run does
\* not take the crash path for it, and its report row shows 0
C9_AbsentVolumeRendered ==
    /\ pc = "crash" => markets.kind = "raised"
    /\ pc = "done" /\ candidates # <<>> =>
          /\ Mails("candidates") # {}
          /\ \A m \in Mails("candidates") : \A a \in 1..Len(outbox[m].rows) :
                Absent(markets.rows[outbox[m].rows[a].id].total_volume)
                    => outbox[m].rows[a].vol = 0

\* C9 as claimed: absent values are used as 0 in the evaluation and in the
\* candidate record, an absent 1h change is never replaced by the 24h value,
\* and a candidate with an absent volume is rendered rather than raising.
C9_Claim == C9_AbsentIsZero /\ C9_AbsentNeverTrue /\ C9_AbsentVolumeRendered

\* --------------------------------------------------------------------- C10
\* the symbol of the row cannot be upper-cased: the one way a row of the
\* modelled inputs raises by itself
SymbolDefect(row) == row.symbol.t \in {"nan", "none"}
Selected(row) == ~SymbolDefect(row) /\ Cardinality(TrueConditions(row)) >= 2
ReasonList(row) ==
    (IF Cond1h(row) THEN <<"1h">> ELSE <<>>)
    \o (IF Cond24h(row) THEN <<"24h">> ELSE <<>>)
    \o (IF CondVol(row) THEN <<"vol">> ELSE <<>>)
\* the candidates as the snapshot and the thresholds alone decide them
SelectionOf(rows) ==
    LET chosen == SelectSeq(rows, Selected)
    IN  [k \in 1..Len(chosen) |->
            [id |-> chosen[k].id, rank |-> chosen[k].rank,
             reasons |-> ReasonList(chosen[k])]]
WithoutFunding(cs) ==
    [k \in 1..Len(cs) |-> [id |-> cs[k].id, rank |-> cs[k].rank,
                            reasons |-> cs[k].reasons]]
SelIndex(id) == CHOOSE k \in 1..Len(sel) : sel[k].id = id

\* C10: whatever the exchange answered, and with or without ccxt, the
\* candidates, their reasons and their order are those the snapshot alone
\* decides, no row is skipped for a lookup and the loop goes through every
\* row, and a candidate's funding annotation is the first rate the exchange
\* gave for it, none when every guess failed or no lookup was possible.
C10_FundingNeverSelects ==
    /\ WithoutFunding(candidates) = SelectionOf(SubSeq(sel, 1, i - 1))
    /\ skipped = {sel[k].id : k \in {j \in Done : SymbolDefect(sel[j])}}
    /\ \A k \in 1..Len(candidates) :
          /\ candidates[k].funding = first_rate[SelIndex(candidates[k].id)]
          /\ ~CCXT_AVAILABLE => candidates[k].funding = 0
    /\ pc \in {"compose", "crash", "done"} /\ sel # <<>> => evaluated = SelIds

\* with ccxt: one candidate got no rate from any guess, another got one from
\* the last guess only, and a row that is no candidate got one too
C10_Witness ==
    /\ pc = "done"
    /\ CCXT_AVAILABLE
    /\ Len(candidates) = 2
    /\ candidates[1].funding = 0
    /\ candidates[2].funding = NumGuesses
    /\ \E k \in 1..Len(sel) : sel[k].id \notin CandidateIds /\ first_rate[k] = 1
    /\ Mails("candidates") # {}

=============================================================================
